---- MODULE Spec2Model ----
(***************************************************************************)
(* Dialog controller of ask-cli (lib/controllers/dialog-controller): one   *)
(* conversational turn against the simulation service, the session state   *)
(* (newSession, utteranceCache) it keeps across turns, and the replay file *)
(* written by the ".record" command.                                       *)
(*                                                                         *)
(* Strings the code inspects character by character (utterances, record    *)
(* arguments, file names) are sequences of chunks; Whitespace holds the    *)
(* chunks String.prototype.trim removes and " " the one split(' ') cuts at.*)
(* Other JavaScript values are tagged records, so that truthiness is       *)
(* computed as JavaScript computes it.                                     *)
(***************************************************************************)
EXTENDS Integers, Sequences, FiniteSets, TLC

\* ------------------------------------------------------------------ bounds

\* Longest utterance history a turn may still extend.
MaxHistory == 2

\* ------------------------------------------------------- JavaScript values

Undefined == [type |-> "undefined"]
Null == [type |-> "null"]
Str(s) == [type |-> "string", value |-> s]
Bool(b) == [type |-> "boolean", value |-> b]
\* A string held as a sequence of chunks.
Text(s) == [type |-> "text", value |-> s]
Err(m) == [type |-> "Error", message |-> m]

\* if (v): undefined, null and '' are falsy, Error objects and other strings truthy.
Truthy(v) ==
    CASE v.type = "undefined" -> FALSE
      [] v.type = "null" -> FALSE
      [] v.type = "string" -> v.value # ""
      [] v.type = "text" -> v.value # <<>>
      [] v.type = "boolean" -> v.value
      [] OTHER -> TRUE

\* --------------------------------------------------------- chunked strings

Whitespace == {" ", "\t"}

RECURSIVE TrimStart(_)
TrimStart(s) ==
    IF s # <<>> /\ Head(s) \in Whitespace THEN TrimStart(Tail(s)) ELSE s

RECURSIVE TrimEnd(_)
TrimEnd(s) ==
    IF s # <<>> /\ s[Len(s)] \in Whitespace
    THEN TrimEnd(SubSeq(s, 1, Len(s) - 1))
    ELSE s

\* String.prototype.trim
Trim(s) == TrimEnd(TrimStart(s))

\* String.prototype.split(' '): cuts at every single space, keeps empty pieces.
RECURSIVE SplitFrom(_, _, _)
SplitFrom(s, i, cur) ==
    IF i > Len(s) THEN <<cur>>
    ELSE IF s[i] = " " THEN <<cur>> \o SplitFrom(s, i + 1, <<>>)
    ELSE SplitFrom(s, i + 1, Append(cur, s[i]))

Split(s) == SplitFrom(s, 1, <<>>)

\* stringUtils.isNonBlankString on a value that is a string.
isNonBlankString(s) == Trim(s) # <<>>

\* ------------------------------------------------------------- environment

\* Lines the REPL hands to evaluateUtterance.
Inputs ==
    { <<>>, <<" ", "\t">>, <<"a">>, <<" ", "a", " ">>, <<"\t", "a", " ", "b">> }

SimulationIds == {"sim-1", "sim-2"}

\* Status codes of a start response, around the threshold the controller tests.
StatusCodes == {200, 299, 300}

\* A response of the start call: {statusCode, body: {id, error: {message}}}.
StartResponses ==
    { [type |-> "object", statusCode |-> c,
       body |-> [id |-> Str(i), error |-> Undefined]] :
        c \in {c \in StatusCodes : c < 300}, i \in SimulationIds }
    \cup
    { [type |-> "object", statusCode |-> c,
       body |-> [id |-> Undefined, error |-> Str("Bad request")]] :
        c \in {c \in StatusCodes : c >= 300} }

\* What SkillSimulationController.startSkillSimulation hands to its callback
\* after its single request: an error alone (the transport failed), a response
\* alone, or a remote-error response together with the error made from it.
StartOutcomes ==
    { [err |-> Err("connect ETIMEDOUT"), response |-> Undefined] }
    \cup { [err |-> Null, response |-> r] : r \in StartResponses }
    \cup { [err |-> Err("Bad request"), response |-> r] :
             r \in {r \in StartResponses : r.statusCode >= 300} }

\* Body of a terminal simulation result, as the response parser sees it.
ResultBodies ==
    [ error : {Undefined, Str(""), Str("Skill failed")},
      shouldEndSession : BOOLEAN,
      captions : {<<>>, <<"Hi">>} ]

\* What SkillSimulationController.getSkillSimulationResult hands to its
\* callback once polling is over: an error alone, or the terminal response.
PollOutcomes ==
    { [err |-> Err("poll failed"), response |-> Undefined] }
    \cup { [err |-> Null,
             response |-> [type |-> "object", statusCode |-> 200, body |-> b]] :
             b \in ResultBodies }

\* Arguments typed after ".record".
RecordArgs ==
    { <<>>, <<" ">>,
      <<"f">>, <<" ", "f", " ">>,
      <<"f", " ", "--append-quit">>,
      <<"f", " ", "--quit">>,
      <<"f", " ", " ", "--append-quit">>,
      <<"f", " ", "--append-quit", " ", "x">>,
      <<"ro">>, <<"ro", " ", "--append-quit">> }

\* File names in use; writing one of ReadOnly fails (its directory cannot be
\* written), writing another succeeds.
Paths == { <<"f">>, <<"ro">> }
ReadOnly == { <<"ro">> }

\* Arguments of direct createReplayFile calls.
FileNames == Paths \cup { <<>>, <<" ">> }
ReplayLists == { <<>>, <<<<"a">>>>, <<<<"a">>, <<"a", " ", "b">>>> }

\* this._skillId, this._locale
SkillId == "amzn1.ask.skill.1234"
Locale == "en-US"

\* simulation-response-parser
getErrorMessage(body) == body.error
shouldEndSession(body) == body.shouldEndSession
getCaption(body) == body.captions

\* ------------------------------------------------------------------- state

VARIABLES
    newSession,      \* DialogController.newSession
    utteranceCache,  \* DialogController.utteranceCache
    pc,              \* where the turn in flight stands: idle, starting, polling
    request,         \* the request the simulation client has outstanding
    spinner,         \* replView's progress spinner
    messenger,       \* what the last operation reported through Messenger
    turn,            \* the last operation when it was a turn: its input, the
                     \* state before it, the calls and callbacks made in it
    files,           \* the file system: file name -> text, or NoFile
    command,         \* the last operation when it was a record command or a
                     \* createReplayFile call: its arguments and what it did
    configuration,   \* the newSession entry of the constructor's configuration
    log,             \* the turns answered so far, in submission order
    \* MetricClient
    enabled,         \* this.enabled
    data,            \* this.data: timeUploaded and the list of MetricAction
    clock,           \* what new Date() returns now
    upload,          \* the sendData promise in flight: retries left and payload
    send,            \* the last sendData call: its argument, the POST
                     \* attempts made and what it resolved with
    uuids,           \* how many ids uuid() has handed out
    \* AskStates
    instance,        \* the module-level singleton
    configFiles,     \* the config files on disk, by path
    created,         \* how many AskStates objects have been created
    opened,          \* per path, the object the last completed construction
                     \* with that path evaluated to since the last dispose
    ask              \* the last AskStates operation and what it returned, and
                     \* in `latest` what the last completed construction
                     \* evaluated to, null once dispose has been called since

metricVars == <<enabled, data, clock, upload, send, uuids>>

askVars == <<instance, configFiles, created, opened, ask>>

\* State of the other modules, which the dialog controller leaves alone.
otherVars == <<metricVars, askVars>>

vars ==
    <<newSession, utteranceCache, pc, request, spinner, messenger, turn, files,
      command, configuration, log, otherVars>>

NoRequest == [kind |-> "none"]

NoOutcome == [err |-> Undefined, response |-> Undefined]

NoTurn ==
    [ input |-> <<>>, utterance |-> <<>>,
      preCache |-> <<>>, preNewSession |-> TRUE,
      startCalls |-> 0, pollCalls |-> 0, polledId |-> Undefined,
      earlierId |-> Undefined,
      start |-> NoOutcome, poll |-> NoOutcome,
      getErr |-> Undefined, getResponse |-> Undefined,
      callbacks |-> 0 ]

NoFile == [exists |-> FALSE]
File(text) == [exists |-> TRUE, text |-> text]

NoCommand ==
    [ op |-> "none", args |-> <<>>, filename |-> Undefined,
      shouldAppendQuit |-> Undefined, utterances |-> <<>>,
      preCache |-> <<>>, preNewSession |-> TRUE,
      wrote |-> FALSE, before |-> "none", thrown |-> Null, callbackErr |-> Null ]

\* Values the configuration's newSession may hold.
ConfiguredNewSession ==
    {Undefined, Null, Bool(TRUE), Bool(FALSE), Str("false")}

\* Variant: the constructor takes any falsy newSession entry for false.
ConstructorNewSessionFalsy(configured) ==
    IF Truthy(configured) THEN TRUE ELSE FALSE

\* constructor: configuration.newSession === false ? configuration.newSession : true
ConstructorNewSession(configured) ==
    IF configured = Bool(FALSE) THEN FALSE ELSE TRUE

\* sendData has not been called.  `failed` holds the ids of the actions in the
\* payloads of failed uploads since the list was last emptied.
NoSend == [called |-> FALSE, error |-> Null, posts |-> 0, settled |-> <<>>,
           resolved |-> Null, failed |-> {}]

\* No sendData promise is pending.
NoUpload == [state |-> "idle"]

\* MetricClient's constructor with _isEnabled() returning isEnabled.
MetricClientInit(isEnabled) ==
    /\ enabled = isEnabled
    /\ data = [timeUploaded |-> Null, actions |-> <<>>]
    /\ clock = 0
    /\ upload = NoUpload
    /\ send = NoSend
    /\ uuids = 0

AskPaths == {"a", "b"}

Contents == {"base", "edited"}

\* A config file that does not exist or does not parse.
Unreadable == [readable |-> FALSE]

ConfigFileOf(content) == [readable |-> TRUE, content |-> content]

NoAsk == [op |-> "none", path |-> "", returned |-> Null, threw |-> FALSE,
          held |-> Null, earlier |-> Null, onDisk |-> Unreadable,
          latest |-> Null]

\* ask-states.ts as loaded: no instance; the files named are on disk.
AskStatesInit(onDisk) ==
    /\ instance = Null
    /\ configFiles = onDisk
    /\ created = 0
    /\ opened = [p \in AskPaths |-> Null]
    /\ ask = NoAsk

Init ==
    /\ MetricClientInit(FALSE)
    /\ AskStatesInit([p \in AskPaths |-> Unreadable])
    /\ configuration \in ConfiguredNewSession
    /\ newSession = ConstructorNewSession(configuration)
    /\ log = <<>>
    /\ utteranceCache = <<>>
    /\ pc = "idle"
    /\ request = NoRequest
    /\ spinner = "off"
    /\ messenger = <<>>
    /\ turn = NoTurn
    /\ files = [p \in Paths |-> NoFile]
    /\ command = NoCommand

\* ------------------------------------------------------- evaluateUtterance

\* SkillSimulationController.startSkillSimulation: a single request, no retry.
SuperStartSkillSimulation(utterance, session) ==
    [kind |-> "start", utterance |-> utterance, newSession |-> session]

\* SkillSimulationController.getSkillSimulationResult: polls the simulation
\* with the id it is given until the service reports a terminal status.
SuperGetSkillSimulationResult(simulationId) ==
    [kind |-> "poll", simulationId |-> simulationId]

\* evaluateUtterance up to the start call: the spinner starts and the trimmed
\* input goes to startSkillSimulation with the current newSession.
EvaluateUtterance(input) ==
    /\ pc = "idle"
    /\ Len(utteranceCache) < MaxHistory
    /\ spinner' = "Sending simulation request to Alexa..."
    /\ request' = SuperStartSkillSimulation(Trim(input), newSession)
    /\ pc' = "starting"
    /\ messenger' = <<>>
    /\ turn' = [NoTurn EXCEPT !.input = input,
                              !.utterance = Trim(input),
                              !.preCache = utteranceCache,
                              !.preNewSession = newSession,
                              !.earlierId =
                                  IF turn.polledId # Undefined
                                  THEN turn.polledId ELSE turn.earlierId,
                              !.startCalls = 1]
    /\ command' = NoCommand
    /\ UNCHANGED <<newSession, utteranceCache, files, configuration, otherVars>>

\* Variant: the utterance is put in front of the cache.
CacheAfterStartPrepending(cache, utterance, response) ==
    IF Truthy(response) THEN <<utterance>> \o cache ELSE cache

\* Variant: the utterance is cached only when the response reports success.
CacheAfterStartOnSuccessOnly(cache, utterance, response) ==
    IF Truthy(response) /\ response.statusCode < 300
    THEN Append(cache, utterance)
    ELSE cache

\* startSkillSimulation's callback: the utterance is cached when a response came.
CacheAfterStart(cache, utterance, response) ==
    IF Truthy(response) THEN Append(cache, utterance) ELSE cache

\* Variant: the status test is > 300.
StartBranchAbove300(startErr, startResponse) ==
    IF Truthy(startErr) THEN "startErr"
    ELSE IF startResponse.statusCode > 300 THEN "status"
    ELSE "poll"

\* The branch evaluateUtterance's start callback takes.
StartBranch(startErr, startResponse) ==
    IF Truthy(startErr) THEN "startErr"
    ELSE IF startResponse.statusCode >= 300 THEN "status"
    ELSE "poll"

\* What the start callback reports through Messenger.error.
StartMessages(branch, startErr, startResponse) ==
    CASE branch = "startErr" -> <<[level |-> "error", text |-> startErr]>>
      [] branch = "status" ->
            <<[level |-> "error", text |-> startResponse.body.error]>>
      [] OTHER -> <<>>

\* replCallback() calls made by the start callback itself.
ReplCallbacksAfterStart(branch) ==
    IF branch \in {"startErr", "status"} THEN 1 ELSE 0

\* The simulation client answers the start call.
\* Variant: the poll asks for a fixed simulation.
SimulationIdOfFirst(startResponse) == Str("sim-1")

\* R.view(R.lensPath(['body', 'id']), startResponse)
SimulationIdOf(startResponse) == startResponse.body.id

StartCallback(outcome) ==
    /\ pc = "starting"
    /\ LET branch == StartBranch(outcome.err, outcome.response)
           calls == ReplCallbacksAfterStart(branch)
           simulationId ==
               IF branch = "poll" THEN SimulationIdOf(outcome.response)
               ELSE Undefined
       IN  /\ utteranceCache' =
                 CacheAfterStart(utteranceCache, request.utterance, outcome.response)
           /\ messenger' =
                 messenger \o StartMessages(branch, outcome.err, outcome.response)
           /\ spinner' =
                 IF branch = "poll" THEN "Waiting for the simulation response..."
                 ELSE "off"
           /\ request' =
                 IF branch = "poll" THEN SuperGetSkillSimulationResult(simulationId)
                 ELSE NoRequest
           /\ pc' =
                 IF branch = "poll" THEN "polling"
                 ELSE IF calls > 0 THEN "idle" ELSE "stalled"
           /\ turn' = [turn EXCEPT
                         !.start = outcome,
                         !.pollCalls = IF branch = "poll" THEN 1 ELSE 0,
                         !.polledId = simulationId,
                         !.callbacks = @ + calls]
    /\ UNCHANGED <<newSession, files, command, configuration, otherVars>>

\* Variant: newSession is never set to false.
GetResultKeepingSession(err, response, session) ==
    IF Truthy(err)
    THEN [getErr |-> err, getResponse |-> Undefined, newSession |-> session]
    ELSE IF Truthy(getErrorMessage(response.body))
    THEN [getErr |-> getErrorMessage(response.body), getResponse |-> Undefined,
          newSession |-> session]
    ELSE [getErr |-> Null, getResponse |-> response, newSession |-> session]

\* Variant: newSession is set to false before the error message is looked at.
GetResultResettingFirst(err, response, session) ==
    IF Truthy(err)
    THEN [getErr |-> err, getResponse |-> Undefined, newSession |-> session]
    ELSE IF Truthy(getErrorMessage(response.body))
    THEN [getErr |-> getErrorMessage(response.body), getResponse |-> Undefined,
          newSession |-> FALSE]
    ELSE [getErr |-> Null, getResponse |-> response, newSession |-> FALSE]

\* getSkillSimulationResult's callback: what it hands on, and newSession after it.
GetResult(err, response, session) ==
    IF Truthy(err)
    THEN [getErr |-> err, getResponse |-> Undefined, newSession |-> session]
    ELSE IF Truthy(getErrorMessage(response.body))
    THEN [getErr |-> getErrorMessage(response.body), getResponse |-> Undefined,
          newSession |-> session]
    ELSE [getErr |-> Null, getResponse |-> response, newSession |-> FALSE]

\* Variant: clearSession resets newSession and keeps the cache.
ClearSessionKeepingCache ==
    [newSession |-> TRUE, utteranceCache |-> utteranceCache]

\* clearSession
ClearSession == [newSession |-> TRUE, utteranceCache |-> <<>>]

\* Variant: the session is also cleared when the poll callback gets an error.
SessionAfterResultClearingOnError(getErr, getResponse, session, cache) ==
    IF Truthy(getErr) \/ shouldEndSession(getResponse.body)
    THEN ClearSession
    ELSE [newSession |-> session, utteranceCache |-> cache]

\* Session state after evaluateUtterance's poll callback.
SessionAfterResult(getErr, getResponse, session, cache) ==
    IF ~Truthy(getErr) /\ shouldEndSession(getResponse.body)
    THEN ClearSession
    ELSE [newSession |-> session, utteranceCache |-> cache]

\* What the poll callback reports through Messenger.
ResultMessages(getErr, getResponse) ==
    IF Truthy(getErr) THEN <<[level |-> "error", text |-> getErr]>>
    ELSE (IF shouldEndSession(getResponse.body)
          THEN <<[level |-> "info", text |-> Str("Session ended")]>>
          ELSE <<>>)
         \o [i \in 1..Len(getCaption(getResponse.body)) |->
               [level |-> "info",
                text |-> Str("Alexa > " \o getCaption(getResponse.body)[i])]]

\* Variant: replCallback() is called in the success branch only.
ReplCallbacksOnSuccessOnly(getErr) == IF Truthy(getErr) THEN 0 ELSE 1

\* replCallback() calls made by the poll callback.
ReplCallbacksAfterResult(getErr) == 1

\* The simulation client ends the poll.
PollCallback(outcome) ==
    /\ pc = "polling"
    /\ LET got == GetResult(outcome.err, outcome.response, newSession)
           after == SessionAfterResult(got.getErr, got.getResponse,
                                       got.newSession, utteranceCache)
           calls == ReplCallbacksAfterResult(got.getErr)
       IN  /\ newSession' = after.newSession
           /\ utteranceCache' = after.utteranceCache
           /\ messenger' = messenger \o ResultMessages(got.getErr, got.getResponse)
           /\ spinner' = "off"
           /\ request' = NoRequest
           /\ pc' = IF calls > 0 THEN "idle" ELSE "stalled"
           /\ turn' = [turn EXCEPT
                         !.poll = outcome,
                         !.getErr = got.getErr,
                         !.getResponse = got.getResponse,
                         !.callbacks = @ + calls]
    /\ UNCHANGED <<files, command, configuration, otherVars>>

\* ------------------------------------------------------------ replay file

\* JSON.stringify of the replay content, token by token; a string is written
\* between quotes.
Quoted(s) == <<"\"">> \o s \o <<"\"">>

JSONText(content) ==
    << <<"{">>, <<"skillId">>, Quoted(<<content.skillId>>),
       <<"locale">>, Quoted(<<content.locale>>),
       <<"type">>, Quoted(<<content.type>>),
       <<"userInput">>, <<"[">> >>
    \o [i \in 1..Len(content.userInput) |-> Quoted(content.userInput[i])]
    \o << <<"]">>, <<"}">> >>

\* The userInput array read back from a replay file's text.
UserInputOf(text) ==
    LET open == CHOOSE i \in 1..Len(text) : text[i] = <<"[">>
        close == CHOOSE i \in 1..Len(text) : text[i] = <<"]">>
    IN  [i \in 1..(close - open - 1) |->
           SubSeq(text[open + i], 2, Len(text[open + i]) - 1)]

\* Variant: an existing file's userInput is extended instead of replaced.
OutputJSONSyncAppending(fs, filename, content) ==
    IF filename \in ReadOnly
    THEN [files |-> fs, wrote |-> FALSE, thrown |-> Err("EACCES")]
    ELSE [files |->
             [fs EXCEPT ![filename] =
                File(JSONText(
                   IF fs[filename].exists
                   THEN [content EXCEPT
                           !.userInput = UserInputOf(fs[filename].text) \o @]
                   ELSE content))],
          wrote |-> TRUE, thrown |-> Null]

\* fs.outputJSONSync(filename, content): the file is replaced by the new text,
\* or the call throws and nothing is written.
OutputJSONSync(fs, filename, content) ==
    IF filename \in ReadOnly
    THEN [files |-> fs, wrote |-> FALSE, thrown |-> Err("EACCES")]
    ELSE [files |-> [fs EXCEPT ![filename] = File(JSONText(content))],
          wrote |-> TRUE, thrown |-> Null]

\* Variant: createReplayFile writes without testing the file name.
CreateReplayFileUnguarded(fs, filename, utterances) ==
    OutputJSONSync(fs, filename,
                   [skillId |-> SkillId, locale |-> Locale,
                    type |-> "text", userInput |-> utterances])

\* createReplayFile(filename, utterances)
CreateReplayFile(fs, filename, utterances) ==
    IF isNonBlankString(filename)
    THEN OutputJSONSync(fs, filename,
                        [skillId |-> SkillId, locale |-> Locale,
                         type |-> "text", userInput |-> utterances])
    ELSE [files |-> fs, wrote |-> FALSE, thrown |-> Null]

\* How a write to filename relates to what the file held before it.
Before(fs, filename, after) ==
    IF filename \notin DOMAIN fs THEN "none"
    ELSE IF ~fs[filename].exists THEN "absent"
    ELSE IF fs[filename] = after[filename] THEN "same"
    ELSE "other"

\* A createReplayFile call from outside the record command.
CallCreateReplayFile(filename, utterances) ==
    /\ pc = "idle"
    /\ LET r == CreateReplayFile(files, filename, utterances)
       IN  /\ files' = r.files
           /\ command' = [NoCommand EXCEPT
                            !.op = "createReplayFile",
                            !.filename = Text(filename),
                            !.utterances = utterances,
                            !.preCache = utteranceCache,
                            !.preNewSession = newSession,
                            !.wrote = r.wrote,
                            !.before = Before(files, filename, r.files),
                            !.thrown = r.thrown]
    /\ turn' = NoTurn
    /\ UNCHANGED <<newSession, utteranceCache, pc, request, spinner, messenger,
                   configuration, otherVars>>

\* _validateRecordCommandInput(recordArgsList, recordCommandFormat)
ValidateRecordCommandInput(recordArgsList) ==
    IF Len(recordArgsList) >= 2 /\ isNonBlankString(recordArgsList[2])
    THEN IF recordArgsList[2] # <<"--append-quit">>
         THEN [filePath |-> Undefined, shouldAppendQuit |-> Undefined,
               warned |-> TRUE]
         ELSE [filePath |-> Text(recordArgsList[1]),
               shouldAppendQuit |-> Bool(TRUE), warned |-> FALSE]
    ELSE [filePath |-> Text(recordArgsList[1]),
          shouldAppendQuit |-> Bool(FALSE), warned |-> FALSE]

\* The record command's first test: the arguments are in the format.
RecordFormatOk(recordArgs) ==
    ~(~isNonBlankString(recordArgs) \/ Len(Split(Trim(recordArgs))) > 2)

\* utteranceCacheCopy: a copy of the cache, with '.quit' pushed when asked.
UtteranceCacheCopy(cache, shouldAppendQuit) ==
    IF Truthy(shouldAppendQuit) THEN Append(cache, <<".quit">>) ELSE cache

\* Variant: the push goes to the live cache (no copy was taken).
CacheAfterRecordAliased(cache, shouldAppendQuit) ==
    IF Truthy(shouldAppendQuit) THEN Append(cache, <<".quit">>) ELSE cache

\* this.utteranceCache after the record command: the push went to the copy.
CacheAfterRecord(cache, shouldAppendQuit) == cache

\* The handler registered by registerRecordCommand.
RecordCommand(recordArgs) ==
    /\ pc = "idle"
    /\ IF ~RecordFormatOk(recordArgs)
       THEN /\ messenger' = <<[level |-> "warn", text |-> Str("Incorrect format")]>>
            /\ command' = [NoCommand EXCEPT
                             !.op = "record", !.args = recordArgs,
                             !.preCache = utteranceCache,
                             !.preNewSession = newSession]
            /\ UNCHANGED <<files, utteranceCache>>
       ELSE LET v == ValidateRecordCommandInput(Split(Trim(recordArgs)))
                copy == UtteranceCacheCopy(utteranceCache, v.shouldAppendQuit)
                r == IF Truthy(v.filePath)
                     THEN CreateReplayFile(files, v.filePath.value, copy)
                     ELSE [files |-> files, wrote |-> FALSE, thrown |-> Null]
            IN  /\ files' = r.files
                /\ utteranceCache' =
                      CacheAfterRecord(utteranceCache, v.shouldAppendQuit)
                /\ messenger' =
                      IF v.warned
                      THEN <<[level |-> "warn",
                              text |-> Str("Unable to validate arguments")]>>
                      ELSE IF Truthy(v.filePath) /\ ~Truthy(r.thrown)
                      THEN <<[level |-> "info",
                              text |-> Str(IF Truthy(v.shouldAppendQuit)
                                           THEN "Created replay file (appended .quit)"
                                           ELSE "Created replay file")]>>
                      ELSE <<>>
                /\ command' = [NoCommand EXCEPT
                                 !.op = "record", !.args = recordArgs,
                                 !.filename = v.filePath,
                                 !.shouldAppendQuit = v.shouldAppendQuit,
                                 !.utterances = copy,
                                 !.preCache = utteranceCache,
                                 !.preNewSession = newSession,
                                 !.wrote = r.wrote,
                                 !.before =
                                    IF Truthy(v.filePath)
                                    THEN Before(files, v.filePath.value, r.files)
                                    ELSE "none",
                                 !.thrown = r.thrown,
                                 !.callbackErr = r.thrown]
    /\ turn' = NoTurn
    /\ UNCHANGED <<newSession, pc, request, spinner, configuration, otherVars>>

\* A turn of the dialog: the REPL hands a line over, the simulation client
\* answers the start call, the simulation client ends the poll.
Next ==
    \/ \E input \in Inputs : EvaluateUtterance(input) /\ UNCHANGED log
    \/ \E outcome \in StartOutcomes : StartCallback(outcome) /\ UNCHANGED log
    \/ \E outcome \in PollOutcomes : PollCallback(outcome) /\ UNCHANGED log

Spec == Init /\ [][Next]_vars

\* The simulation client calls back on every request it was given.
LiveSpec ==
    /\ Spec
    /\ WF_vars(\E outcome \in StartOutcomes :
                  StartCallback(outcome) /\ UNCHANGED log)
    /\ WF_vars(\E outcome \in PollOutcomes :
                  PollCallback(outcome) /\ UNCHANGED log)

\* Utterances the cache can hold, and the caches turns can have built.
Utterances == { Trim(input) : input \in Inputs }

Histories ==
    UNION { [1..n -> Utterances] : n \in 0..MaxHistory }

\* The controller between two turns, with any history the turns have left.
InitReplay ==
    /\ MetricClientInit(FALSE)
    /\ AskStatesInit([p \in AskPaths |-> Unreadable])
    /\ configuration = Undefined
    /\ log = <<>>
    /\ newSession \in BOOLEAN
    /\ utteranceCache \in Histories
    /\ pc = "idle"
    /\ request = NoRequest
    /\ spinner = "off"
    /\ messenger = <<>>
    /\ turn = NoTurn
    /\ files = [p \in Paths |-> NoFile]
    /\ command = NoCommand

\* The record command and createReplayFile, between two turns.
NextReplay ==
    \/ \E filename \in FileNames, utterances \in ReplayLists :
          CallCreateReplayFile(filename, utterances) /\ UNCHANGED log
    \/ \E recordArgs \in RecordArgs : RecordCommand(recordArgs) /\ UNCHANGED log

SpecReplay == InitReplay /\ [][NextReplay]_vars

\* A dialog controller constructed with an empty configuration, at rest.
DialogControllerIdle ==
    /\ configuration = Undefined
    /\ newSession = ConstructorNewSession(configuration)
    /\ log = <<>>
    /\ utteranceCache = <<>>
    /\ pc = "idle"
    /\ request = NoRequest
    /\ spinner = "off"
    /\ messenger = <<>>
    /\ turn = NoTurn
    /\ files = [p \in Paths |-> NoFile]
    /\ command = NoCommand

dialogVars ==
    <<newSession, utteranceCache, pc, request, spinner, messenger, turn, files,
      command, configuration, log>>

\* ------------------------------------------------------ a sequence of turns

MaxTurns == 4

\* A caller of the controller calls clearSession between two turns.
CallClearSession ==
    /\ pc = "idle"
    /\ newSession' = ClearSession.newSession
    /\ utteranceCache' = ClearSession.utteranceCache
    /\ turn' = NoTurn
    /\ command' = NoCommand
    /\ UNCHANGED <<pc, request, spinner, messenger, files, configuration,
                   otherVars>>

Submitted(input) ==
    [kind |-> "turn", utterance |-> Trim(input), responded |-> FALSE]

Cleared == [kind |-> "clearSession", utterance |-> <<>>, responded |-> FALSE]

\* The terminal response ends the session: the poll gave no error, the body
\* carries no error message and the parser finds the session closed.
SessionEnding(outcome) ==
    /\ ~Truthy(outcome.err)
    /\ ~Truthy(getErrorMessage(outcome.response.body))
    /\ shouldEndSession(outcome.response.body)

\* The lines of a dialog: two of Inputs that differ once trimmed.
Lines == { <<" ", "a", " ">>, <<"\t", "a", " ", "b">> }

InitLog == DialogControllerIdle /\ MetricClientInit(FALSE)
           /\ AskStatesInit([p \in AskPaths |-> Unreadable])

\* Serialized turns and clearSession calls, with every turn and every
\* clearSession written down as it happens.
NextLog ==
    \/ \E input \in Lines :
          /\ Len(log) < MaxTurns
          /\ EvaluateUtterance(input)
          /\ log' = Append(log, Submitted(input))
    \/ \E outcome \in StartOutcomes :
          /\ StartCallback(outcome)
          /\ log' = [log EXCEPT ![Len(log)].responded = Truthy(outcome.response)]
    \/ \E outcome \in PollOutcomes :
          /\ PollCallback(outcome)
          /\ log' = IF SessionEnding(outcome) THEN Append(log, Cleared) ELSE log
    \/ /\ Len(log) < MaxTurns
       /\ CallClearSession
       /\ log' = Append(log, Cleared)

SpecLog == InitLog /\ [][NextLog]_vars

\* ------------------------------------------------- MetricAction, MetricClient

MaxActions == 2

MaxClock == 1

\* this.postRetries = 3
postRetries == 3

SUCCESS == "Success"

FAILURE == "Failure"

\* new Date() at time `now`
Date(now) == [type |-> "date", value |-> now]

\* What callers pass to end(error) and sendData(error).
Errors == {Null, Str("boom"), Err(""), Err("net")}

\* MetricAction's constructor, with name, type and startTime left out.
NewMetricAction(id) ==
    [endTime |-> Null, failureMessage |-> Str(""), result |-> Null,
     id |-> id, ended |-> FALSE]

\* error && error instanceof Error ? error.message : error
ErrorMessage(error) ==
    IF Truthy(error) /\ error.type = "Error" THEN Str(error.message) ELSE error

\* Variant: end closes the action again when it is already closed.
EndAgain(action, error, now) ==
    LET errorMessage == ErrorMessage(error)
    IN  [action EXCEPT
            !.result = IF Truthy(errorMessage) THEN FAILURE ELSE SUCCESS,
            !.failureMessage =
                IF Truthy(errorMessage) THEN errorMessage ELSE Str(""),
            !.endTime = Date(now),
            !.ended = TRUE]

\* MetricAction.end(error) at time `now`: the action afterwards.
End(action, error, now) ==
    IF action.ended
    THEN action
    ELSE LET errorMessage == ErrorMessage(error)
         IN  [action EXCEPT
                 !.result = IF Truthy(errorMessage) THEN FAILURE ELSE SUCCESS,
                 !.failureMessage =
                     IF Truthy(errorMessage) THEN errorMessage ELSE Str(""),
                 !.endTime = Date(now),
                 !.ended = TRUE]

\* MetricAction.toJSON()
ActionToJSON(action) ==
    [end_time |-> action.endTime, failure_message |-> action.failureMessage,
     result |-> action.result, id |-> action.id]

\* MetricClient.toJSON() of a client holding `d`, under the key "payload".
Payload(d) ==
    [payload |->
        [time_uploaded |-> d.timeUploaded,
         actions |-> [i \in DOMAIN d.actions |-> ActionToJSON(d.actions[i])]]]

\* The ids of the actions in a list.
Ids(list) == {list[i].id : i \in DOMAIN list}

\* startAction(name, type)
StartAction ==
    /\ uuids < MaxActions
    /\ uuids' = uuids + 1
    /\ data' = [data EXCEPT
                   !.actions = Append(@, NewMetricAction(uuids + 1))]
    /\ UNCHANGED <<enabled, clock, upload, send, dialogVars, askVars>>

\* A caller closes an action startAction returned to it.
EndAction(i, error) ==
    /\ i \in DOMAIN data.actions
    /\ data' = [data EXCEPT !.actions[i] = End(@, error, clock)]
    /\ UNCHANGED <<enabled, clock, upload, send, uuids, dialogVars, askVars>>

\* Time passes.
Tick ==
    /\ clock < MaxClock
    /\ clock' = clock + 1
    /\ UNCHANGED <<enabled, data, upload, send, uuids, dialogVars, askVars>>

\* The action list of a disabled client after sendData.
ActionsWhenDisabled(pending) == <<>>

\* Variant: the .then of sendData keeps the uploaded actions.
ActionsAfterUploadKept(pending) == pending

\* .then(() => { this.data.actions = []; ... })
ActionsAfterUpload(pending) == <<>>

\* Variant: the .catch of sendData drops the actions.
ActionsAfterFailureDropped(pending) == <<>>

\* .catch(() => ({ success: false })) leaves the list alone.
ActionsAfterFailure(pending) == pending

\* sendData(error), up to the first POST being issued by _upload; the
\* caller waits for the promise before it calls sendData again.
SendData(error) ==
    /\ upload.state = "idle"
    /\ IF ~enabled
       THEN /\ data' = [data EXCEPT !.actions = ActionsWhenDisabled(@)]
            /\ upload' = NoUpload
            /\ send' = [called |-> TRUE, error |-> error,
                        posts |-> 0, settled |-> <<>>,
                        resolved |-> [success |-> TRUE], failed |-> {}]
       ELSE LET ended == [i \in DOMAIN data.actions |->
                            End(data.actions[i], error, clock)]
                uploading == [timeUploaded |-> Date(clock), actions |-> ended]
            IN  /\ data' = uploading
                /\ upload' = [state |-> "posting", retries |-> postRetries,
                              payload |-> Payload(uploading)]
                /\ send' = [called |-> TRUE, error |-> error,
                            posts |-> 1, settled |-> <<>>,
                            resolved |-> Null, failed |-> send.failed]
    /\ UNCHANGED <<enabled, clock, uuids, dialogVars, askVars>>

\* Variant: _retry gives up only when no retries are left at all.
RetryAgainUntilZero(retries) == retries > 0

\* _retry: retries > 1 ? this._retry(retries - 1, fn) : Promise.reject(err)
RetryAgain(retries) == retries > 1

\* The POST in flight succeeds: _retry's promise is fulfilled and the .then
\* of sendData runs.
PostFulfilled ==
    /\ upload.state = "posting"
    /\ data' = [data EXCEPT !.actions = ActionsAfterUpload(@)]
    /\ upload' = NoUpload
    /\ send' = [send EXCEPT !.settled = Append(@, "fulfilled"),
                            !.resolved = [success |-> TRUE],
                            !.failed = {}]
    /\ UNCHANGED <<enabled, clock, uuids, dialogVars, askVars>>

\* The POST in flight fails: _retry posts the same payload again or rejects,
\* and then the .catch of sendData runs.
PostRejected ==
    /\ upload.state = "posting"
    /\ IF RetryAgain(upload.retries)
       THEN /\ upload' = [upload EXCEPT !.retries = @ - 1]
            /\ send' = [send EXCEPT !.settled = Append(@, "rejected"),
                                    !.posts = @ + 1]
            /\ data' = data
       ELSE /\ upload' = NoUpload
            /\ send' = [send EXCEPT !.settled = Append(@, "rejected"),
                                    !.resolved = [success |-> FALSE],
                                    !.failed = @ \cup Ids(upload.payload.payload.actions)]
            /\ data' = [data EXCEPT !.actions = ActionsAfterFailure(@)]
    /\ UNCHANGED <<enabled, clock, uuids, dialogVars, askVars>>

InitMetrics ==
    /\ DialogControllerIdle
    /\ AskStatesInit([p \in AskPaths |-> Unreadable])
    /\ \E isEnabled \in BOOLEAN : MetricClientInit(isEnabled)

NextMetrics ==
    \/ StartAction
    \/ \E i \in 1..MaxActions, error \in Errors : EndAction(i, error)
    \/ Tick
    \/ \E error \in Errors : SendData(error)
    \/ PostFulfilled
    \/ PostRejected

SpecMetrics == InitMetrics /\ [][NextMetrics]_vars

\* The HTTP client settles every POST: it answers or times out.
LiveMetrics == SpecMetrics /\ WF_vars(PostFulfilled \/ PostRejected)

\* --------------------------------------------------------------- AskStates

MaxInstances == 3

\* An AskStates object: its identity, the _path it was constructed with and
\* the content read() loaded.
AskStatesObject(id, path, content) ==
    [type |-> "object", id |-> id, path |-> path, content |-> content]

\* ConfigFile.read(): throws unless the file exists and parses.
ReadThrows(disk, filePath) == ~disk[filePath].readable

\* Variant: the constructor returns the held instance whatever its path.
NewAskStatesIgnoringPath(held, disk, filePath, id) ==
    IF Truthy(held)
    THEN [returned |-> held, threw |-> FALSE, instance |-> held]
    ELSE IF ReadThrows(disk, filePath)
         THEN [returned |-> Null, threw |-> TRUE, instance |-> held]
         ELSE LET this == AskStatesObject(id, filePath, disk[filePath].content)
              IN  [returned |-> this, threw |-> FALSE, instance |-> this]

\* new AskStates(filePath) with `held` in the module's instance variable:
\* what the expression evaluates to, whether it throws, and the instance
\* variable afterwards.  `id` is the identity of the object being constructed.
NewAskStates(held, disk, filePath, id) ==
    IF Truthy(held) /\ held.path = filePath
    THEN [returned |-> held, threw |-> FALSE, instance |-> held]
    ELSE IF ReadThrows(disk, filePath)
         THEN [returned |-> Null, threw |-> TRUE, instance |-> held]
         ELSE LET this == AskStatesObject(id, filePath, disk[filePath].content)
              IN  [returned |-> this, threw |-> FALSE, instance |-> this]

\* The objects created so far, counted after a construction.
CreatedAfter(new) ==
    IF ~new.threw /\ new.returned.id = created + 1 THEN created + 1 ELSE created

\* A caller evaluates new AskStates(filePath).
Construct(filePath) ==
    LET new == NewAskStates(instance, configFiles, filePath, created + 1)
    IN  /\ CreatedAfter(new) <= MaxInstances
        /\ instance' = new.instance
        /\ created' = CreatedAfter(new)
        /\ opened' = IF new.threw THEN opened
                      ELSE [opened EXCEPT ![filePath] = new.returned]
        /\ ask' = [op |-> "construct", path |-> filePath,
                   returned |-> new.returned, threw |-> new.threw,
                   held |-> instance, earlier |-> opened[filePath],
                   onDisk |-> configFiles[filePath],
                   latest |-> IF new.threw THEN ask.latest ELSE new.returned]
        /\ UNCHANGED <<configFiles, dialogVars, metricVars>>

\* AskStates.withContent(filePath, content): the file is written, then an
\* AskStates is constructed on it and dropped.
WithContent(filePath, content) ==
    LET written == [configFiles EXCEPT ![filePath] = ConfigFileOf(content)]
        new == NewAskStates(instance, written, filePath, created + 1)
    IN  /\ CreatedAfter(new) <= MaxInstances
        /\ configFiles' = written
        /\ instance' = new.instance
        /\ created' = CreatedAfter(new)
        /\ opened' = [opened EXCEPT ![filePath] = new.returned]
        /\ ask' = [op |-> "withContent", path |-> filePath,
                   returned |-> Undefined, threw |-> new.threw,
                   held |-> instance, earlier |-> opened[filePath],
                   onDisk |-> written[filePath], latest |-> new.returned]
        /\ UNCHANGED <<dialogVars, metricVars>>

\* AskStates.getInstance()
GetInstance ==
    /\ ask' = [op |-> "getInstance", path |-> "", returned |-> instance,
               threw |-> FALSE, held |-> instance, earlier |-> Null,
               onDisk |-> Unreadable, latest |-> ask.latest]
    /\ UNCHANGED <<instance, configFiles, created, opened, dialogVars,
                   metricVars>>

\* Variant: dispose leaves the instance variable alone.
DisposeKeepingInstance ==
    /\ instance' = instance
    /\ opened' = [p \in AskPaths |-> Null]
    /\ ask' = [op |-> "dispose", path |-> "", returned |-> Undefined,
               threw |-> FALSE, held |-> instance, earlier |-> Null,
               onDisk |-> Unreadable, latest |-> Null]
    /\ UNCHANGED <<configFiles, created, dialogVars, metricVars>>

\* AskStates.dispose()
Dispose ==
    /\ instance' = Null
    /\ opened' = [p \in AskPaths |-> Null]
    /\ ask' = [op |-> "dispose", path |-> "", returned |-> Undefined,
               threw |-> FALSE, held |-> instance, earlier |-> Null,
               onDisk |-> Unreadable, latest |-> Null]
    /\ UNCHANGED <<configFiles, created, dialogVars, metricVars>>

\* What can be on disk when the module is loaded.
ConfigFilesOnDisk ==
    [AskPaths -> {Unreadable} \cup {ConfigFileOf(c) : c \in Contents}]

InitAsk ==
    /\ DialogControllerIdle
    /\ MetricClientInit(FALSE)
    /\ \E onDisk \in ConfigFilesOnDisk : AskStatesInit(onDisk)

NextAsk ==
    \/ \E filePath \in AskPaths : Construct(filePath)
    \/ \E filePath \in AskPaths, content \in Contents :
          WithContent(filePath, content)
    \/ GetInstance
    \/ Dispose

SpecAsk == InitAsk /\ [][NextAsk]_vars

\* ---------------------------------------------------------------- properties

\* The completion callback of the last turn has fired.
TurnEnded == pc = "idle" /\ turn.callbacks > 0

\* The start call of the last turn has been answered ...
StartAnswered == turn.start # NoOutcome
\* ... with a response object (whatever its status), or with none.
StartResponded == StartAnswered /\ Truthy(turn.start.response)
StartTransportFailed == StartAnswered /\ ~Truthy(turn.start.response)

\* The poll of the last turn has been answered.
PollAnswered == turn.poll # NoOutcome
\* The poll operation itself failed.
PollFailed == PollAnswered /\ Truthy(turn.poll.err)
\* The terminal response carries a service-side error message.
SimulationFailed ==
    /\ PollAnswered /\ ~Truthy(turn.poll.err)
    /\ Truthy(getErrorMessage(turn.poll.response.body))
\* The terminal response was handed on and parsed.
ResultParsed == PollAnswered /\ ~Truthy(turn.getErr)

\* C1: for a non-empty trimmed utterance, once the start call is answered the
\* history is the history before the turn plus that one utterance if a
\* response object came (success or remote-error status), and the history
\* before the turn if the transport failed; the rest of the turn appends
\* nothing more (it leaves the history alone or clears it).
C1_AppendIffStartResponse ==
    (StartAnswered /\ turn.utterance # <<>>) =>
        /\ ~PollAnswered =>
              utteranceCache =
                 IF StartResponded
                 THEN Append(turn.preCache, turn.utterance)
                 ELSE turn.preCache
        /\ PollAnswered =>
              /\ StartResponded
              /\ utteranceCache \in {Append(turn.preCache, turn.utterance), <<>>}

C1_Witness ==
    /\ TurnEnded /\ StartResponded
    /\ turn.start.response.statusCode >= 300
    /\ turn.utterance # <<>> /\ turn.preCache # <<>>
    /\ utteranceCache = Append(turn.preCache, turn.utterance)

\* C2: when the completion callback fires after a turn whose terminal response
\* was parsed as signalling session end, newSession is true and the history is
\* empty, whatever they were before the turn.
C2_SessionReset ==
    (TurnEnded /\ ResultParsed /\ shouldEndSession(turn.getResponse.body)) =>
        /\ newSession = TRUE
        /\ Len(utteranceCache) = 0

C2_Witness ==
    /\ TurnEnded /\ ResultParsed /\ shouldEndSession(turn.getResponse.body)
    /\ turn.preNewSession = FALSE /\ turn.preCache # <<>>
    /\ turn.utterance # <<>>

\* C3: after a turn whose terminal response has no service error and does not
\* signal session end, newSession is false and the history is the history
\* before the turn with the trimmed utterance appended at its end.
C3_Continuation ==
    ( /\ TurnEnded /\ PollAnswered /\ ~Truthy(turn.poll.err)
      /\ ~Truthy(getErrorMessage(turn.poll.response.body))
      /\ ~shouldEndSession(turn.poll.response.body) ) =>
        /\ newSession = FALSE
        /\ utteranceCache = Append(turn.preCache, Trim(turn.input))

C3_Witness ==
    /\ TurnEnded /\ PollAnswered /\ ~Truthy(turn.poll.err)
    /\ getErrorMessage(turn.poll.response.body) = Undefined
    /\ ~shouldEndSession(turn.poll.response.body)
    /\ turn.preNewSession = TRUE
    /\ turn.preCache = << <<"a">> >>
    /\ turn.input = <<"\t", "a", " ", "b">>
    /\ utteranceCache = << <<"a">>, <<"a", " ", "b">> >>

\* C4: every turn that evaluateUtterance starts comes to invoke the completion
\* callback, and invokes it exactly once, in every branch, given that the
\* simulation client calls back on each of its requests.
C4_CallbackExactlyOnce ==
    /\ [](turn.callbacks <= 1)
    /\ [](pc = "idle" /\ turn.startCalls > 0 => turn.callbacks = 1)
    /\ [](pc # "idle" => <>(pc = "idle" /\ turn.callbacks = 1))

C4_Witness ==
    /\ TurnEnded /\ turn.callbacks = 1
    /\ SimulationFailed

\* C5: a turn on an empty or whitespace-only input issues no start request
\* and no poll, and leaves the history and newSession as they were.
C5_BlankInputRejected ==
    (turn.startCalls + turn.callbacks > 0 /\ Trim(turn.input) = <<>>) =>
        /\ turn.startCalls = 0
        /\ turn.pollCalls = 0
        /\ utteranceCache = turn.preCache
        /\ newSession = turn.preNewSession

\* The turn went from Sending straight to Error: the start call failed at
\* the transport level, or its response carries a status code >= 300.
StartRejected ==
    /\ StartAnswered
    /\ \/ Truthy(turn.start.err)
       \/ turn.start.response.statusCode >= 300

\* C6 as stated: a turn that goes from Sending directly to Error appends
\* nothing to the history.
C6_StartErrorAppendsNothing ==
    (TurnEnded /\ StartRejected) => utteranceCache = turn.preCache

\* C6 as amended: such a turn never polls and ends at once; it appends nothing
\* when the transport failed and no response came, and appends the trimmed
\* utterance, once, when a response with a status code >= 300 came.
C6_StartErrorAppendsIffResponse ==
    StartRejected =>
        /\ TurnEnded /\ turn.pollCalls = 0 /\ ~PollAnswered
        /\ utteranceCache =
              IF StartResponded
              THEN Append(turn.preCache, turn.utterance)
              ELSE turn.preCache

C6_Witness ==
    /\ TurnEnded /\ StartRejected
    /\ ~Truthy(turn.start.err)
    /\ turn.start.response.statusCode = 300
    /\ turn.preCache # <<>>
    /\ utteranceCache = Append(turn.preCache, turn.utterance)

\* C7: a turn that ends in Polling -> Error (the poll operation failed, or
\* the terminal response carries a service-side error message) leaves
\* newSession as it was before the turn, also when the erroring response
\* body signals session end.
C7_PollErrorKeepsNewSession ==
    (TurnEnded /\ (PollFailed \/ SimulationFailed)) =>
        newSession = turn.preNewSession

C7_Witness ==
    /\ TurnEnded /\ SimulationFailed
    /\ shouldEndSession(turn.poll.response.body)
    /\ turn.preNewSession = FALSE
    /\ newSession = FALSE

\* C8 as stated: a turn that ends with TransportError (here in its narrowest
\* reading, a start call that produced no response) or with PollFailure leaves
\* newSession unchanged and appends nothing to the history; so after a turn
\* whose start succeeded and whose poll failed the history is as before.
C8_TransportOrPollFailureAppendsNothing ==
    (TurnEnded /\ (StartTransportFailed \/ PollFailed)) =>
        /\ newSession = turn.preNewSession
        /\ utteranceCache = turn.preCache

\* C8 as amended: such a turn leaves newSession unchanged; it appends nothing
\* when the start call produced no response, and otherwise (a remote-error
\* start response, or a start that succeeded and a poll that failed) the
\* history is the history before the turn with the utterance appended.
C8_FailureKeepsSessionAppendsIffResponse ==
    (TurnEnded /\ (StartRejected \/ PollFailed)) =>
        /\ newSession = turn.preNewSession
        /\ StartTransportFailed => utteranceCache = turn.preCache
        /\ StartResponded =>
              utteranceCache = Append(turn.preCache, turn.utterance)

C8_Witness ==
    /\ TurnEnded /\ PollFailed
    /\ turn.start.response.statusCode < 300
    /\ turn.preCache # <<>> /\ turn.preNewSession = TRUE
    /\ utteranceCache = Append(turn.preCache, turn.utterance)

\* The last operation was a write of the replay file that went through.
Wrote == command.wrote /\ command.filename.value \in DOMAIN files

WrittenUserInput == UserInputOf(files[command.filename.value].text)

\* C9: the record command leaves the controller's history and newSession as
\* they were, with or without --append-quit and whether the write succeeds or
\* throws; the file it writes holds the history snapshot, followed by '.quit'
\* when --append-quit was given, and '.quit' never enters the live history.
C9_RecordKeepsSession ==
    command.op = "record" =>
        /\ utteranceCache = command.preCache
        /\ newSession = command.preNewSession
        /\ \A i \in 1..Len(utteranceCache) : utteranceCache[i] # <<".quit">>
        /\ Wrote =>
              WrittenUserInput =
                 IF command.shouldAppendQuit = Bool(TRUE)
                 THEN command.preCache \o << <<".quit">> >>
                 ELSE command.preCache

C9_Witness ==
    /\ command.op = "record" /\ Wrote
    /\ command.shouldAppendQuit = Bool(TRUE)
    /\ Len(command.preCache) = 2
    /\ WrittenUserInput = utteranceCache \o << <<".quit">> >>

\* C10: after a createReplayFile call that wrote, the file holds exactly the
\* document of that call, whatever it held before (nothing, the same document
\* or another one): its userInput is the utterance list of the last call and
\* has its length, which for the record command is the history's length plus
\* one if --append-quit was given.
C10_LastWriterWins ==
    Wrote =>
        /\ files[command.filename.value] =
              File(JSONText([skillId |-> SkillId, locale |-> Locale,
                             type |-> "text",
                             userInput |-> command.utterances]))
        /\ WrittenUserInput = command.utterances
        /\ command.op = "record" =>
              Len(WrittenUserInput) =
                 Len(command.preCache)
                   + (IF command.shouldAppendQuit = Bool(TRUE) THEN 1 ELSE 0)

C10_Witness ==
    /\ Wrote /\ command.before = "same"
    /\ command.op = "createReplayFile"
    /\ Len(command.utterances) = 2

\* The replay document createReplayFile builds from a list of utterances.
ReplayDocument(utterances) ==
    JSONText([skillId |-> SkillId, locale |-> Locale, type |-> "text",
              userInput |-> utterances])

\* C11: a createReplayFile call whose file name is not a non-blank string
\* writes nothing and raises no error; a call with a non-blank file name
\* leaves, in the state the call returns to, that file holding
\* {skillId, locale, type: 'text', userInput: utterances} and every other file
\* as it was, unless the write throws, and then no file has changed.
C11_CreateReplayFile ==
    [][ command'.op = "createReplayFile" =>
          IF isNonBlankString(command'.filename.value)
          THEN IF command'.thrown = Null
               THEN /\ command'.wrote
                    /\ files' =
                          [files EXCEPT ![command'.filename.value] =
                             File(ReplayDocument(command'.utterances))]
               ELSE ~command'.wrote /\ files' = files
          ELSE /\ ~command'.wrote
               /\ command'.thrown = Null
               /\ files' = files ]_vars

C11_Witness ==
    /\ command.op = "createReplayFile"
    /\ command.filename = Text(<<" ">>)
    /\ command.utterances # <<>>
    /\ ~command.wrote /\ command.thrown = Null
    /\ files[<<"f">>].exists

\* The last operation was a construction that completed.
Constructed == ask.op = "construct" /\ ~ask.threw

\* C12 as stated: with no dispose in between, a construction with a path
\* that was constructed before evaluates to the object the earlier
\* construction with that path evaluated to.
C12_OneInstancePerPath ==
    (Constructed /\ ask.earlier # Null) => ask.returned = ask.earlier

\* C12: one instance is held for the whole process.  A construction with the
\* path of the held instance evaluates to the held instance and creates
\* nothing; a construction with any other path creates a new object, which is
\* neither the held one nor the one an earlier construction with that path
\* produced, and holds it instead.
C12_OneInstanceHeld ==
    Constructed =>
        /\ instance = ask.returned
        /\ IF ask.held # Null /\ ask.held.path = ask.path
           THEN ask.returned = ask.held
           ELSE /\ ask.returned.id = created
                /\ ask.returned.path = ask.path
                /\ ask.returned # ask.held
                /\ ask.returned # ask.earlier

\* A path is constructed again after another path was constructed in between.
C12_Witness ==
    /\ Constructed
    /\ ask.earlier # Null /\ ask.earlier.path = ask.path
    /\ ask.held # Null /\ ask.held.path # ask.path
    /\ ask.returned # ask.earlier

\* The last sendData call has resolved its promise.
Resolved == send.called /\ send.resolved # Null

\* One of the POST attempts of the last sendData call succeeded.
SomeAttemptFulfilled == \E k \in DOMAIN send.settled : send.settled[k] = "fulfilled"

\* What holds of the attempts of a sendData call on an enabled client, at
\* every moment.
AttemptsWithinBudget ==
    (enabled /\ send.called) =>
        /\ send.posts >= 1 /\ send.posts <= postRetries
        /\ Len(send.settled) <= send.posts
        /\ \A k \in DOMAIN send.settled :
              send.settled[k] = "fulfilled" =>
                  k = Len(send.settled) /\ send.posts = k
        /\ (send.resolved = Null) = (upload.state = "posting")
        /\ Resolved =>
              /\ Len(send.settled) = send.posts
              /\ send.resolved.success = SomeAttemptFulfilled
              /\ ~send.resolved.success =>
                    send.settled = [k \in 1..postRetries |-> "rejected"]

\* C13: on an enabled client a sendData call makes at least one and at most
\* three POST attempts, makes none after an attempt that succeeded, and its
\* promise is always resolved, with success true iff an attempt succeeded and
\* success false only after three failed attempts in a row.
C13_UploadRetriedThreeTimes ==
    /\ []AttemptsWithinBudget
    /\ (enabled /\ upload.state = "posting") ~> Resolved

C13_Witness ==
    /\ enabled /\ Resolved
    /\ ~send.resolved.success
    /\ send.posts = 3
    /\ send.settled = <<"rejected", "rejected", "rejected">>

\* The controller has been constructed and nothing has been asked of it.
JustConstructed == pc = "idle" /\ turn = NoTurn /\ command = NoCommand

\* C14 as stated: whatever the configuration, a controller that has just
\* been constructed has newSession true and an empty history.
C14_StartsTrueForEveryConfiguration ==
    JustConstructed => (newSession = TRUE /\ utteranceCache = <<>>)

\* C14: a controller that has just been constructed has an empty history, and
\* newSession false when the configuration's newSession entry is the boolean
\* false and true for every other entry, a missing one included.
C14_StartsTrueUnlessConfiguredFalse ==
    JustConstructed =>
        /\ newSession = (configuration # Bool(FALSE))
        /\ utteranceCache = <<>>

C14_Witness ==
    /\ JustConstructed
    /\ configuration = Bool(FALSE)
    /\ newSession = FALSE
    /\ utteranceCache = <<>>

\* The start call of the last turn gave no error and a response below 300.
StartAccepted ==
    /\ StartAnswered
    /\ ~Truthy(turn.start.err)
    /\ turn.start.response.statusCode < 300

\* C15: in a turn getSkillSimulationResult is called if and only if the start
\* call came back without an error and with a status code below 300; it is
\* called once, with the id in the body of that turn's start response, also
\* when an earlier turn polled with another id; in every other turn no poll
\* request is made.
C15_PollOnceWithThisTurnsId ==
    /\ turn.pollCalls = (IF StartAccepted THEN 1 ELSE 0)
    /\ request.kind = "poll" <=> (pc = "polling")
    /\ StartAccepted =>
          /\ turn.polledId = turn.start.response.body.id
          /\ pc = "polling" =>
                request.simulationId = turn.start.response.body.id
    /\ ~StartAccepted => turn.polledId = Undefined

C15_Witness ==
    /\ pc = "polling"
    /\ turn.earlierId = Str("sim-1")
    /\ turn.start.response.body.id = Str("sim-2")
    /\ turn.pollCalls = 1
    /\ request.simulationId = Str("sim-2")

\* The utterances of the turns in `entries` that got a start response and
\* have no clearSession after them, in the order of `entries`.
RECURSIVE SentSinceClear(_)
SentSinceClear(entries) ==
    IF entries = <<>> THEN <<>>
    ELSE LET last == entries[Len(entries)]
             before == SubSeq(entries, 1, Len(entries) - 1)
         IN  IF last.kind = "clearSession" THEN <<>>
             ELSE IF last.responded
                  THEN Append(SentSinceClear(before), last.utterance)
                  ELSE SentSinceClear(before)

\* C16: with serialized turns the history is at every moment the trimmed
\* inputs, in submission order, of the turns whose start call produced a
\* response object since the controller was constructed or clearSession was
\* last called, by a caller or by a session-ending turn; right after such a
\* turn it is empty.
C16_HistoryIsSentSinceClear ==
    /\ utteranceCache = SentSinceClear(log)
    /\ (log # <<>> /\ log[Len(log)].kind = "clearSession") =>
          utteranceCache = <<>>

C16_Witness ==
    /\ pc = "idle"
    /\ Len(log) = 4
    /\ log[1].kind = "clearSession"
    /\ log[2].kind = "turn" /\ log[2].responded
    /\ log[3].kind = "turn" /\ ~log[3].responded
    /\ log[4].kind = "turn" /\ log[4].responded
    /\ log[2].utterance # log[4].utterance
    /\ utteranceCache = <<log[2].utterance, log[4].utterance>>

\* What a step of sendData does to the action list: the call itself empties
\* it on a disabled client, without a POST, and keeps every action on an
\* enabled one, all of them in the payload; the step that resolves the promise
\* empties it when the upload succeeded and leaves it alone when it failed.
SendDataStep ==
    /\ (upload.state = "idle" /\ send' # send) =>
          IF enabled
          THEN /\ Ids(data'.actions) = Ids(data.actions)
               /\ Len(data'.actions) = Len(data.actions)
               /\ upload'.state = "posting"
               /\ Ids(upload'.payload.payload.actions) = Ids(data.actions)
          ELSE /\ data'.actions = <<>>
               /\ send'.posts = 0
               /\ upload'.state = "idle"
               /\ send'.resolved = [success |-> TRUE]
    /\ (upload.state = "posting" /\ send' # send) =>
          IF upload'.state = "posting" THEN data'.actions = data.actions
          ELSE IF send'.resolved.success THEN data'.actions = <<>>
          ELSE data'.actions = data.actions

\* C17: sendData empties the action list when the client is disabled, and
\* then posts nothing, or when the upload succeeded; when every attempt failed
\* the list keeps its actions, and the actions of a failed upload are all in
\* the list and in the payload of any later upload.
C17_ActionsKeptUntilUploaded ==
    /\ [][SendDataStep]_vars
    /\ [](send.failed \subseteq Ids(data.actions))
    /\ [](upload.state = "posting" =>
             send.failed \subseteq Ids(upload.payload.payload.actions))

C17_Witness ==
    /\ enabled
    /\ upload.state = "posting"
    /\ send.failed # {}
    /\ send.failed \subseteq Ids(upload.payload.payload.actions)
    /\ Len(data.actions) = 2

\* The error message a caller gave with `error`, '' when it gave none.
MessageGiven(error) ==
    CASE error.type = "Error" -> error.message
      [] error.type = "string" -> error.value
      [] OTHER -> ""

\* `action` is closed as an end(error) call at time `now` closes it.
ClosedWith(action, error, now) ==
    /\ action.ended
    /\ action.result = (IF MessageGiven(error) # "" THEN FAILURE ELSE SUCCESS)
    /\ action.failureMessage = Str(MessageGiven(error))
    /\ action.endTime = Date(now)

\* The step is a sendData(error) call on an enabled client.
SendDataCalled == enabled /\ upload.state = "idle" /\ send' # send

\* What a step does to the action at place i of the list.
EndStep(i) ==
    LET before == data.actions[i]
        after == data'.actions[i]
    IN  /\ before.ended => after = before
        /\ (~before.ended /\ after.ended) =>
              /\ after.id = before.id
              /\ \E error \in Errors : ClosedWith(after, error, clock)
        /\ (~before.ended /\ SendDataCalled) =>
              ClosedWith(after, send'.error, clock)

\* C18: the first end(error) call on an action, made by a caller or by
\* sendData, sets result to Failure if a non-empty error message was given and
\* to Success otherwise, failureMessage to that message and endTime to the
\* time of the call; no step changes an action that is closed, so an action
\* kept after a failed upload goes through later sendData calls unchanged.
C18_ClosedAtMostOnce ==
    [][ \A i \in DOMAIN data.actions \cap DOMAIN data'.actions : EndStep(i) ]_vars

\* An action closed as a success at time 0 by an upload that failed is being
\* uploaded again, at time 1, by sendData(new Error('net')).
C18_Witness ==
    /\ upload.state = "posting"
    /\ clock = 1
    /\ send.error = Err("net")
    /\ \E i \in DOMAIN data.actions :
          /\ data.actions[i].id \in send.failed
          /\ data.actions[i].result = SUCCESS
          /\ data.actions[i].failureMessage = Str("")
          /\ data.actions[i].endTime = Date(0)

\* What a step that evaluates new AskStates(path) does.
ConstructStep ==
    (ask'.op = "construct" /\ ask' # ask) =>
        IF instance # Null /\ instance.path = ask'.path
        THEN /\ ~ask'.threw
             /\ ask'.returned = instance
             /\ instance' = instance
             /\ created' = created
        ELSE IF ask'.threw
        THEN /\ ~configFiles[ask'.path].readable
             /\ instance' = instance
             /\ created' = created
        ELSE /\ configFiles[ask'.path].readable
             /\ created' = created + 1
             /\ ask'.returned =
                   AskStatesObject(created + 1, ask'.path,
                                   configFiles[ask'.path].content)
             /\ instance' = ask'.returned

\* C19: the instance variable, which is what getInstance() returns, is null
\* when nothing has been constructed or dispose was called after the last
\* completed construction, and otherwise the object that construction
\* evaluated to.  A construction evaluates to the held instance, creating
\* nothing, exactly when one is held and its path is the path given; otherwise
\* it creates an object with that path, loads it from the file and holds it in
\* place of the previous one, or, when the file cannot be read, throws and
\* leaves the held instance in place.
C19_InstanceIsLatestConstruction ==
    /\ [](instance = ask.latest)
    /\ [](ask.op = "getInstance" => ask.returned = ask.latest)
    /\ [][ConstructStep]_vars

\* getInstance() returns the third object created, which took the place of
\* one with another path.
C19_Witness ==
    /\ ask.op = "getInstance"
    /\ ask.returned # Null
    /\ ask.returned.id = 3
    /\ ask.returned = instance
    /\ opened[ask.returned.path] = ask.returned
    /\ \E p \in AskPaths : opened[p] # Null /\ opened[p] # ask.returned

====
